---- MODULE Spec2Model ----
(***************************************************************************)
(* Model of minizipper.secure_zipper.SecureZipper: the engine state        *)
(* (password, algorithm), the five byte transforms, the SECUREZIP          *)
(* container codec and the create / extract / test operations over a      *)
(* small file system.                                                      *)
(*                                                                         *)
(* Bytes are integers 0..255 and files are sequences of bytes.  The        *)
(* hashlib digests are modelled by a fixed mixing function with the real   *)
(* digest lengths (perfect-hash idealisation: distinct inputs of the       *)
(* model give distinct digests), secrets.token_bytes by a choice among     *)
(* 16-byte values not drawn before, and zipfile by a tagged framing of     *)
(* the source content.                                                     *)
(***************************************************************************)
EXTENDS Integers, Sequences, FiniteSets, TLC

\* ------------------------------------------------------------------ bounds
\* number of distinct salts secrets.token_bytes can hand out in one run
MaxSalts == 2
\* length of the source file (longer than every digest, so that every
\* keystream is cycled at least once)
SourceLen == 31
\* number of calls made on the engines in one run
MaxCalls == 4
\* length of the longest blob the transforms are applied to on their own
MaxBlobLen == 40

\* --------------------------------------------------------------- constants
MagicLen == 9
LenFieldLen == 4
KeyHashLen == 8
SaltLen == 16
Sha256Len == 32
Md5Len == 16
Sha1Len == 20

\* ------------------------------------------------------------------- bytes
Byte == 0..255

\* one bit of a ^ b, at the bit of weight w
XorBit(a, b, w) == ((((a \div w) % 2) + ((b \div w) % 2)) % 2) * w

\* the ^ operator on two bytes
XorByte ==
    [a \in Byte |-> [b \in Byte |->
        XorBit(a, b, 1) + XorBit(a, b, 2) + XorBit(a, b, 4) + XorBit(a, b, 8)
            + XorBit(a, b, 16) + XorBit(a, b, 32) + XorBit(a, b, 64) + XorBit(a, b, 128)]]

Xor(a, b) == XorByte[a][b]

\* f.read(n) at offset pos (0-based): at most n bytes, fewer at end of file
Read(bytes, pos, n) ==
    SubSeq(bytes, pos + 1, IF pos + n <= Len(bytes) THEN pos + n ELSE Len(bytes))

\* bytes(bytearray): the byte string holding the bytes appended
Bytes(b) == SubSeq(b, 1, Len(b))

\* key[::-1]
Reverse(s) == Bytes([i \in 1..Len(s) |-> s[Len(s) + 1 - i]])

\* faulty variant of PackU32: the bytes are written most significant first
PackU32_big_endian(n) ==
    << (n \div 16777216) % 256, (n \div 65536) % 256, (n \div 256) % 256, n % 256 >>

\* struct.pack('<I', n)
PackU32(n) ==
    << n % 256, (n \div 256) % 256, (n \div 65536) % 256, (n \div 16777216) % 256 >>

\* struct.unpack('<I', b)[0], b of exactly four bytes
UnpackU32(b) == b[1] + 256 * b[2] + 65536 * b[3] + 16777216 * b[4]

\* ------------------------------------------------------------------ hashes
\* A digest of n bytes of the message m for the hash function numbered iv:
\* every output byte mixes the length of m, its last byte and two bytes
\* picked by the output position.
Digest(m, n, iv) ==
    LET len == Len(m)
        last_byte == m[len]
        d == IF len = 0 THEN [i \in 1..n |-> (iv * 97 + i * 29) % 256]
             ELSE [i \in 1..n |->
                    ( m[((i * 5) % len) + 1] * 3
                    + m[((i * 11 + iv) % len) + 1] * 7
                    + last_byte * (2 * i + 1)
                    + len * 13 + iv * 89 + i * i ) % 256]
    IN  SubSeq(d, 1, n)

\* hashlib.sha256(m).digest()
sha256(m) == Digest(m, Sha256Len, 1)

\* hashlib.md5(m).digest()
md5(m) == Digest(m, Md5Len, 2)

\* hashlib.sha1(m).digest()
sha1(m) == Digest(m, Sha1Len, 3)

\* -------------------------------------------------------------- passwords
\* self._password is None
None == "None"

\* the non-empty passwords callers use
Passwords == {"pa", "pb"}

\* password.encode('utf-8')
encode(password) ==
    CASE password = "pa" -> << 112, 97 >>
      [] password = "pb" -> << 112, 98 >>
      [] password = ""   -> << >>

\* ------------------------------------------------------------- algorithms
\* EncryptionAlgorithm: the member values
XOR == "xor"
HMAC_SHA256 == "hmac_sha256"
AES_LIKE == "aes_like"
DOUBLE_XOR == "double_xor"
CUSTOM_HASH == "custom_hash"

EncryptionAlgorithm == {XOR, HMAC_SHA256, AES_LIKE, DOUBLE_XOR, CUSTOM_HASH}

\* algorithm.value.encode('utf-8'): the ASCII token
value_bytes(algorithm) ==
    CASE algorithm = XOR         -> << 120, 111, 114 >>
      [] algorithm = HMAC_SHA256 -> << 104, 109, 97, 99, 95, 115, 104, 97, 50, 53, 54 >>
      [] algorithm = AES_LIKE    -> << 97, 101, 115, 95, 108, 105, 107, 101 >>
      [] algorithm = DOUBLE_XOR  -> << 100, 111, 117, 98, 108, 101, 95, 120, 111, 114 >>
      [] algorithm = CUSTOM_HASH -> << 99, 117, 115, 116, 111, 109, 95, 104, 97, 115, 104 >>

\* b"key1", b"key2"
key1_tag == << 107, 101, 121, 49 >>
key2_tag == << 107, 101, 121, 50 >>

\* ----------------------------------------------------------- transforms
_generate_key(password) == sha256(encode(password))

_xor_encrypt(data, key) ==
    Bytes([i \in 1..Len(data) |-> Xor(data[i], key[((i - 1) % Len(key)) + 1])])

\* faulty variant of _hmac_sha256_encrypt: a constant salt instead of the
\* one drawn
_hmac_sha256_encrypt_fixed_salt(data, key, salt) ==
    LET fixed == Bytes([i \in 1..SaltLen |-> 0])
        hmac_key == sha256(key \o fixed)
    IN  fixed \o Bytes([i \in 1..Len(data) |->
                         Xor(data[i], hmac_key[((i - 1) % Len(hmac_key)) + 1])])

_hmac_sha256_encrypt(data, key, salt) ==
    LET hmac_key == sha256(key \o salt)
    IN  salt \o Bytes([i \in 1..Len(data) |->
                        Xor(data[i], hmac_key[((i - 1) % Len(hmac_key)) + 1])])

\* faulty variant of _aes_like_encrypt: the second key is added, not XORed
_aes_like_encrypt_additive(data, key) ==
    LET key1 == sha256(key \o key1_tag)
        key2 == sha256(key \o key2_tag)
    IN  Bytes([i \in 1..Len(data) |->
            (Xor(data[i], key1[((i - 1) % Len(key1)) + 1])
                + key2[((i - 1) % Len(key2)) + 1]) % 256])

_aes_like_encrypt(data, key) ==
    LET key1 == sha256(key \o key1_tag)
        key2 == sha256(key \o key2_tag)
    IN  Bytes([i \in 1..Len(data) |->
            Xor(Xor(data[i], key1[((i - 1) % Len(key1)) + 1]),
                key2[((i - 1) % Len(key2)) + 1])])

_double_xor_encrypt(data, key) ==
    LET temp == _xor_encrypt(data, key)
        reversed_key == Reverse(key)
    IN  _xor_encrypt(temp, reversed_key)

_custom_hash_encrypt(data, key) ==
    LET md5_key == md5(key)
        sha1_key == sha1(key)
        sha256_key == sha256(key)
    IN  Bytes([i \in 1..Len(data) |->
            Xor(Xor(Xor(data[i], md5_key[((i - 1) % Len(md5_key)) + 1]),
                    sha1_key[((i - 1) % Len(sha1_key)) + 1]),
                sha256_key[((i - 1) % Len(sha256_key)) + 1])])

\* _encrypt_data after the key is generated: the branch of the algorithm
EncryptBranch(algorithm, data, key, salt) ==
    CASE algorithm = XOR         -> _xor_encrypt(data, key)
      [] algorithm = HMAC_SHA256 -> _hmac_sha256_encrypt(data, key, salt)
      [] algorithm = AES_LIKE    -> _aes_like_encrypt(data, key)
      [] algorithm = DOUBLE_XOR  -> _double_xor_encrypt(data, key)
      [] algorithm = CUSTOM_HASH -> _custom_hash_encrypt(data, key)
      [] OTHER                   -> _xor_encrypt(data, key)

\* faulty variant of _encrypt_data: the aes_like branch calls the salted
\* transform
_encrypt_data_salted_aes(algorithm, data, password, salt) ==
    LET key == _generate_key(password)
    IN  CASE algorithm = XOR         -> _xor_encrypt(data, key)
          [] algorithm = HMAC_SHA256 -> _hmac_sha256_encrypt(data, key, salt)
          [] algorithm = AES_LIKE    -> _hmac_sha256_encrypt(data, key, salt)
          [] algorithm = DOUBLE_XOR  -> _double_xor_encrypt(data, key)
          [] algorithm = CUSTOM_HASH -> _custom_hash_encrypt(data, key)
          [] OTHER                   -> _xor_encrypt(data, key)

\* _encrypt_data: algorithm is self._encryption_algorithm, salt the value
\* secrets.token_bytes(16) returns when the hmac_sha256 branch draws it
_encrypt_data(algorithm, data, password, salt) ==
    LET key == _generate_key(password)
    IN  EncryptBranch(algorithm, data, key, salt)

_hmac_sha256_decrypt(data, key) ==
    LET salt == Read(data, 0, SaltLen)
        encrypted_data == Read(data, SaltLen, Len(data))
        hmac_key == sha256(key \o salt)
    IN  Bytes([i \in 1..Len(encrypted_data) |->
            Xor(encrypted_data[i], hmac_key[((i - 1) % Len(hmac_key)) + 1])])

\* _decrypt_data after the key is generated: _hmac_sha256_decrypt, or
\* _encrypt_data again, which generates the same key and never draws a salt
DecryptBranch(algorithm, data, key) ==
    IF algorithm = HMAC_SHA256
    THEN _hmac_sha256_decrypt(data, key)
    ELSE EncryptBranch(algorithm, data, key, << >>)

\* faulty variant of _decrypt_data: every algorithm is taken to be symmetric
_decrypt_data_symmetric(algorithm, data, password) ==
    _encrypt_data(algorithm, data, password, << >>)

\* _decrypt_data: the non-hmac branch never draws a salt
_decrypt_data(algorithm, data, password) ==
    LET key == _generate_key(password)
    IN  DecryptBranch(algorithm, data, key)

\* ------------------------------------------------------- container codec
\* b'SECUREZIP'
MAGIC == << 83, 69, 67, 85, 82, 69, 90, 73, 80 >>

\* faulty variant of key_hash: the digest of the empty string, whatever the
\* password
key_hash_constant(password) == Read(sha256(<< >>), 0, KeyHashLen)

\* hashlib.sha256(password.encode('utf-8')).digest()[:8]
key_hash(password) == Read(sha256(encode(password)), 0, KeyHashLen)

\* an exception type; NoExc when nothing is raised
NoExc == "NoExc"

\* the I/O failures a call can meet: none, a failure while the plain archive
\* is built, open(output_path, 'wb') refused (the path is a directory), or an
\* OSError when k of the f.write calls of _encrypt_zip_file have reached the
\* disk
HeaderWrites == 5
NoFault == << "none", 0 >>
BuildFault == << "build", 0 >>
OpenFault == << "open", 0 >>
WriteFault(k) == << "write", k >>
WriteFaults == {WriteFault(k) : k \in 0..HeaderWrites}
CreateFaults == {BuildFault, OpenFault} \cup WriteFaults

\* what output_path holds when the writes of _encrypt_zip_file stop after k
\* of them: the file was truncated by open and holds the fields written
PartialContainer(container, k) ==
    LET token_length == container[MagicLen + LenFieldLen + KeyHashLen + 1]
        offsets == << 0, MagicLen, MagicLen + LenFieldLen,
                      MagicLen + LenFieldLen + KeyHashLen,
                      MagicLen + LenFieldLen + KeyHashLen + 1,
                      MagicLen + LenFieldLen + KeyHashLen + 1 + token_length >>
    IN  Read(container, 0, offsets[k + 1])

\* faulty variant of _encrypt_zip_file: the token written is always the
\* default algorithm's
_encrypt_zip_file_default_token(algorithm, zip_data, password, salt) ==
    LET encrypted_data == _encrypt_data(algorithm, zip_data, password, salt)
        header == PackU32(Len(encrypted_data))
        algorithm_id == value_bytes(XOR)
        algorithm_header == << Len(algorithm_id) >>
    IN  MAGIC \o header \o key_hash(password) \o algorithm_header
              \o algorithm_id \o encrypted_data

\* _encrypt_zip_file: the bytes written to output_path.  algorithm is
\* self._encryption_algorithm, read once by _encrypt_data and once for the
\* token.
_encrypt_zip_file(algorithm, zip_data, password, salt) ==
    LET encrypted_data == _encrypt_data(algorithm, zip_data, password, salt)
        header == PackU32(Len(encrypted_data))
        algorithm_id == value_bytes(algorithm)
        algorithm_header == << Len(algorithm_id) >>
    IN  MAGIC \o header \o key_hash(password) \o algorithm_header
              \o algorithm_id \o encrypted_data

\* _encrypt_zip_file from "Add encryption markers and metadata" on: the
\* bytes written around encrypted_data when self._encryption_algorithm is
\* algorithm at that point
Frame(algorithm, encrypted_data, password) ==
    LET header == PackU32(Len(encrypted_data))
        algorithm_id == value_bytes(algorithm)
        algorithm_header == << Len(algorithm_id) >>
    IN  MAGIC \o header \o key_hash(password) \o algorithm_header
              \o algorithm_id \o encrypted_data

\* EncryptionAlgorithm(algorithm_id): the member whose value is the token,
\* or ValueError
IsMember(algorithm_id) == \E a \in EncryptionAlgorithm : value_bytes(a) = algorithm_id
Member(algorithm_id) == CHOOSE a \in EncryptionAlgorithm : value_bytes(a) = algorithm_id

\* faulty variant of DetectAlgorithm: an unknown token resets the engine to
\* the default algorithm
DetectAlgorithm_default(algorithm, algorithm_id) ==
    IF algorithm_id # << >> /\ algorithm_id # value_bytes(algorithm)
    THEN IF IsMember(algorithm_id) THEN Member(algorithm_id)
         ELSE XOR
    ELSE algorithm

\* faulty variant of DetectAlgorithm: the token is never adopted
DetectAlgorithm_never(algorithm, algorithm_id) == algorithm

\* _decrypt_zip_file, "Set algorithm (if different from current)": the
\* engine's algorithm after reading the token
DetectAlgorithm(algorithm, algorithm_id) ==
    IF algorithm_id # << >> /\ algorithm_id # value_bytes(algorithm)
    THEN IF IsMember(algorithm_id) THEN Member(algorithm_id)
         ELSE algorithm
    ELSE algorithm

\* a file that does not exist
NoFile == << -1 >>

\* _decrypt_zip_file on the bytes of input_path: ok is the returned bool,
\* algorithm is self._encryption_algorithm afterwards, out the bytes
\* output_path holds after the call (NoFile when it was never opened).
\* Every exception is caught and gives False.  Tokens are ASCII, so
\* decode('utf-8') keeps the bytes.  fault is NoFault, or a write
\* fault when out_f.write fails after output_path was opened: half of the
\* bytes have reached the disk.  steps lists, in the order they ran, the
\* stages the call went through: the magic check, the comparison of the key
\* hash, the setting of the algorithm, the transform and the write.
DecryptFail(algorithm, steps) ==
    [ok |-> FALSE, algorithm |-> algorithm, out |-> NoFile, steps |-> steps]

\* faulty variant of _decrypt_zip_file: the token is read and adopted before
\* the key hash is compared
_decrypt_zip_file_detect_first(algorithm, input, password, fault) ==
    LET magic == Read(input, 0, MagicLen)
        len_field == Read(input, MagicLen, LenFieldLen)
        stored_key_hash == Read(input, MagicLen + LenFieldLen, KeyHashLen)
        expected_key_hash == key_hash(password)
        pos_alg == MagicLen + LenFieldLen + KeyHashLen
        alg_len_field == Read(input, pos_alg, 1)
    IN  IF magic # MAGIC THEN DecryptFail(algorithm, << "magic" >>)
        ELSE IF Len(len_field) < LenFieldLen THEN DecryptFail(algorithm, << "magic" >>)
        ELSE IF Len(alg_len_field) < 1 THEN DecryptFail(algorithm, << "magic" >>)
        ELSE
          LET data_len == UnpackU32(len_field)
              algorithm_length == alg_len_field[1]
              algorithm_id == Read(input, pos_alg + 1, algorithm_length)
              detected == DetectAlgorithm(algorithm, algorithm_id)
              encrypted_data == Read(input, pos_alg + 1 + algorithm_length, data_len)
              decrypted_data == _decrypt_data(detected, encrypted_data, password)
              steps == << "magic", "algorithm", "key_hash", "decrypt", "write" >>
          IN  IF stored_key_hash # expected_key_hash
              THEN DecryptFail(detected, << "magic", "algorithm", "key_hash" >>)
              ELSE IF fault # NoFault
              THEN [ok |-> FALSE, algorithm |-> detected,
                    out |-> Read(decrypted_data, 0, Len(decrypted_data) \div 2),
                    steps |-> steps]
              ELSE [ok |-> TRUE, algorithm |-> detected, out |-> decrypted_data,
                    steps |-> steps]

\* _decrypt_zip_file(input_path, output_path, password)
_decrypt_zip_file(algorithm, input, password, fault) ==
    LET magic == Read(input, 0, MagicLen)
        len_field == Read(input, MagicLen, LenFieldLen)
        stored_key_hash == Read(input, MagicLen + LenFieldLen, KeyHashLen)
        expected_key_hash == key_hash(password)
        pos_alg == MagicLen + LenFieldLen + KeyHashLen
        alg_len_field == Read(input, pos_alg, 1)
    IN  IF magic # MAGIC THEN DecryptFail(algorithm, << "magic" >>)
        ELSE IF Len(len_field) < LenFieldLen THEN DecryptFail(algorithm, << "magic" >>)
        ELSE IF stored_key_hash # expected_key_hash
        THEN DecryptFail(algorithm, << "magic", "key_hash" >>)
        ELSE IF Len(alg_len_field) < 1
        THEN DecryptFail(algorithm, << "magic", "key_hash" >>)
        ELSE
          LET data_len == UnpackU32(len_field)
              algorithm_length == alg_len_field[1]
              algorithm_id == Read(input, pos_alg + 1, algorithm_length)
              detected == DetectAlgorithm(algorithm, algorithm_id)
              encrypted_data == Read(input, pos_alg + 1 + algorithm_length, data_len)
              decrypted_data == _decrypt_data(detected, encrypted_data, password)
              steps == << "magic", "key_hash", "algorithm", "decrypt", "write" >>
          IN  IF fault # NoFault
              THEN [ok |-> FALSE, algorithm |-> detected,
                    out |-> Read(decrypted_data, 0, Len(decrypted_data) \div 2),
                    steps |-> steps]
              ELSE [ok |-> TRUE, algorithm |-> detected, out |-> decrypted_data,
                    steps |-> steps]

\* faulty variant of _is_encrypted_zip_file: the magic is only required to
\* start with the bytes read
_is_encrypted_zip_file_prefix(file) ==
    IF file = NoFile THEN FALSE
    ELSE Read(file, 0, MagicLen) = Read(MAGIC, 0, Len(Read(file, 0, MagicLen)))

\* _is_encrypted_zip_file: a path that cannot be opened gives False
_is_encrypted_zip_file(file) ==
    IF file = NoFile THEN FALSE ELSE Read(file, 0, MagicLen) = MAGIC

\* ------------------------------------------------------------ archive codec
\* zipfile.ZipFile(path, 'w') + writestr: the archive of one source file;
\* stamp is the modification time writestr records
PK == << 80, 75 >>
BuildArchive(content, stamp) == PK \o << stamp >> \o content

\* zipfile.ZipFile(path, 'r') raises BadZipFile unless the bytes are an archive
IsZip(bytes) == Len(bytes) >= 3 /\ Read(bytes, 0, 2) = PK

\* extractall: the content of the archived file
ArchiveContent(bytes) == Read(bytes, 3, Len(bytes))

\* ------------------------------------------------------------------- paths
\* Path.with_suffix: the last dot-component is replaced by the suffix
with_suffix(path, suffix) ==
    IF Len(path) > 1 THEN SubSeq(path, 1, Len(path) - 1) \o suffix
    ELSE path \o suffix

TMP_ZIP == << "tmp", "zip" >>
TEMP_ZIP == << "temp", "zip" >>

\* output_path.parent: every output path of a run lies in one directory
OUT_DIR == << "out" >>
parent(path) == OUT_DIR

\* what a path that is a directory holds
Dir == << -2 >>

\* output_path.parent.mkdir(parents=True, exist_ok=True) on the file system f
mkdir(f, output_path) == [f EXCEPT ![parent(output_path)] = Dir]

\* ------------------------------------------------------------------- state
\* the SecureZipper instances
Engines == {"z1", "z2"}

\* source files: one that exists and a path that does not exist
SRC_FILE == << "test", "txt" >>
SRC_MISSING == << "missing", "txt" >>
SourcePaths == {SRC_FILE, SRC_MISSING}

SourceContent == Bytes([i \in 1..SourceLen |-> (i * 7 + 3) % 256])

\* modification times writestr can record: the calls of one run fall within
\* one tick of the archive's clock
Stamps == {0}

\* output paths of create_zip
OutPaths == {<< "a", "zip" >>, << "b", "zip" >>}

\* files found on disk that no create of this run wrote
F_SHORT == << "s", "zip" >>
F_ALMOST == << "n", "zip" >>
F_MAGIC == << "m", "zip" >>
F_ABSENT == << "x", "zip" >>
F_DAMAGED == << "d", "zip" >>
F_UNKNOWN == << "u", "zip" >>
FoundPaths == {F_SHORT, F_ALMOST, F_MAGIC, F_ABSENT, F_DAMAGED, F_UNKNOWN}

\* a file of the caller's that no call of the run is aimed at: it bears the
\* name create_zip derives for its temporary archive from output path b.zip
F_USER == with_suffix(<< "b", "zip" >>, TMP_ZIP)
UserData == << 117, 115, 101, 114 >>

\* where test_zip_extraction extracts the first member: the member's name,
\* taken in the current working directory, which holds no such file
CWD_MEMBER == << "cwd", "test", "txt" >>

\* a container written under "pa" and aes_like whose ciphertext bytes were
\* damaged afterwards: magic, length, commitment and token are intact
DamagedContainer ==
    LET container == _encrypt_zip_file(AES_LIKE, BuildArchive(SourceContent, 0), "pa", << >>)
        header_len == MagicLen + LenFieldLen + KeyHashLen + 1 + Len(value_bytes(AES_LIKE))
    IN  Bytes([i \in 1..Len(container) |->
                 IF i <= header_len THEN container[i] ELSE Xor(container[i], 85)])

\* a container written under "pa" and xor whose token was replaced by "zzz",
\* a name outside the five identifiers
UNKNOWN_TOKEN == << 122, 122, 122 >>
UnknownTokenContainer ==
    LET container == _encrypt_zip_file(XOR, BuildArchive(SourceContent, 0), "pa", << >>)
        token_length == Len(value_bytes(XOR))
        fixed_len == MagicLen + LenFieldLen + KeyHashLen
    IN  Read(container, 0, fixed_len) \o << Len(UNKNOWN_TOKEN) >> \o UNKNOWN_TOKEN
            \o Read(container, fixed_len + 1 + token_length, Len(container))

\* the paths extract_zip and test_zip_extraction are called on
ZipPaths == OutPaths \cup FoundPaths

Paths ==
    SourcePaths \cup ZipPaths \cup {OUT_DIR, CWD_MEMBER}
        \cup {with_suffix(p, TMP_ZIP) : p \in OutPaths}
        \cup {with_suffix(p, TEMP_ZIP) : p \in ZipPaths}

\* the values secrets.token_bytes(16) can return
Salt(k) == Bytes([i \in 1..SaltLen |-> (k * 37 + i * 11) % 256])
SaltPool == {Salt(k) : k \in 1..MaxSalts}

VARIABLES
    password,    \* self._password of each instance (None when absent)
    algorithm,   \* self._encryption_algorithm of each instance
    fs,          \* path -> bytes of the file, NoFile when it does not exist
    extracted,   \* content extractall put in the extraction directory
    usedSalts,   \* salts secrets.token_bytes has returned so far
    meta,        \* history: how the file at each output path was produced
    config,      \* history: what the caller last did to each instance's password
    selected,    \* history: the algorithm the caller selected with the password
                 \* each instance holds (None when it holds none)
    inflight,    \* the create a second caller has in progress on instance z1
    probe,       \* a transform applied on its own: its inputs and its results
    last,        \* history: the last call, its arguments and its outcome
    calls        \* history: number of calls made so far

vars == << password, algorithm, fs, extracted, usedSalts, meta, config, selected,
          inflight, probe, last, calls >>

NoMeta == [kind |-> "none", plain |-> NoFile, password |-> None,
           algorithm |-> XOR, salt |-> << >>]

\* the record of a call: its arguments, the I/O failure it met, whether the
\* sources it named exist, the engine's algorithm before it, the value
\* returned, the exception that reached the caller (exc, with the __cause__
\* it carries), the bytes _decrypt_zip_file produced and the stages it went
\* through
NoCall == [op |-> "init", e |-> "z1", arg_password |-> None, arg_algorithm |-> XOR,
           arg_exc |-> NoExc, arg_fault |-> NoFault, source_ok |-> TRUE,
           path |-> << >>, algorithm0 |-> XOR,
           is_encrypted |-> FALSE, ret |-> FALSE, raised |-> FALSE,
           exc |-> NoExc, cause |-> NoExc, decoded |-> NoFile, steps |-> << >>]

\* no create in progress.  Of a create in progress: pc is the statement it
\* has reached, path its output_path, zip_data the bytes read from the
\* temporary archive, password the argument of _encrypt_zip_file, compared
\* the branches of _encrypt_data passed over, transform the algorithm of the
\* branch taken, encrypted_data its result, and landed the algorithm stored
\* by a setpassword of another caller since _encrypt_data was entered
NoEncode == [pc |-> "idle", path |-> << >>, zip_data |-> << >>, password |-> None,
             compared |-> 0, transform |-> None, encrypted_data |-> << >>,
             salt |-> << >>, landed |-> None]

\* no transform applied on its own
NoProbe == [stage |-> "none", algorithm |-> XOR, key |-> << >>, blob |-> << >>,
            salt |-> << >>, once |-> << >>, twice |-> << >>, decoded |-> << >>]

\* the instances as __init__ leaves them, and the files on disk
Constructed ==
    /\ password = [e \in Engines |-> None]
    /\ algorithm = [e \in Engines |-> XOR]
    /\ fs = [p \in Paths |->
                CASE p = SRC_FILE -> SourceContent
                  [] p = F_SHORT -> Read(MAGIC, 0, 6)
                  [] p = F_ALMOST -> Read(MAGIC, 0, 8) \o << 81 >> \o PackU32(0)
                  [] p = F_MAGIC -> MAGIC
                  [] p = F_DAMAGED -> DamagedContainer
                  [] p = F_UNKNOWN -> UnknownTokenContainer
                  [] p = F_USER -> UserData
                  [] OTHER -> NoFile]
    /\ extracted = NoFile
    /\ usedSalts = {}
    /\ meta = [p \in OutPaths |-> NoMeta]
    /\ config = [e \in Engines |-> "unset"]
    /\ selected = [e \in Engines |-> None]
    /\ inflight = NoEncode
    /\ last = NoCall
    /\ calls = 0

Init == Constructed /\ probe = NoProbe

\* ----------------------------------------------------------------- actions
\* faulty variant of setpassword: an empty or absent password is ignored
setpassword_no_clear(e, pw, alg) ==
    /\ IF pw = None \/ pw = ""
       THEN UNCHANGED << password, algorithm >>
       ELSE /\ password' = [password EXCEPT ![e] = pw]
            /\ algorithm' = [algorithm EXCEPT ![e] = alg]
    /\ last' = [NoCall EXCEPT !.op = "setpassword", !.e = e,
                              !.arg_password = pw, !.arg_algorithm = alg]
    /\ config' = [config EXCEPT ![e] = IF pw = None \/ pw = "" THEN "cleared" ELSE "set"]
    /\ selected' = [selected EXCEPT ![e] = IF pw = None \/ pw = "" THEN None ELSE alg]
    /\ UNCHANGED << fs, extracted, usedSalts, meta >>

\* faulty variant of setpassword: the algorithm argument is dropped
setpassword_keeps_algorithm(e, pw, alg) ==
    /\ IF pw = None \/ pw = ""
       THEN /\ password' = [password EXCEPT ![e] = None]
            /\ UNCHANGED algorithm
       ELSE /\ password' = [password EXCEPT ![e] = pw]
            /\ UNCHANGED algorithm
    /\ last' = [NoCall EXCEPT !.op = "setpassword", !.e = e,
                              !.arg_password = pw, !.arg_algorithm = alg]
    /\ config' = [config EXCEPT ![e] = IF pw = None \/ pw = "" THEN "cleared" ELSE "set"]
    /\ selected' = [selected EXCEPT ![e] = IF pw = None \/ pw = "" THEN None ELSE alg]
    /\ UNCHANGED << fs, extracted, usedSalts, meta >>

\* faulty variant of setpassword: the password and the algorithm are kept
\* on the class, so every instance sees them
setpassword_shared(e, pw, alg) ==
    /\ IF pw = None \/ pw = ""
       THEN /\ password' = [x \in Engines |-> None]
            /\ UNCHANGED algorithm
       ELSE /\ password' = [x \in Engines |-> pw]
            /\ algorithm' = [x \in Engines |-> alg]
    /\ last' = [NoCall EXCEPT !.op = "setpassword", !.e = e,
                              !.arg_password = pw, !.arg_algorithm = alg]
    /\ config' = [config EXCEPT ![e] = IF pw = None \/ pw = "" THEN "cleared" ELSE "set"]
    /\ selected' = [selected EXCEPT ![e] = IF pw = None \/ pw = "" THEN None ELSE alg]
    /\ UNCHANGED << fs, extracted, usedSalts, meta >>

\* faulty variant of setpassword: the engine is always given the default
\* algorithm
setpassword_default_algorithm(e, pw, alg) ==
    /\ IF pw = None \/ pw = ""
       THEN /\ password' = [password EXCEPT ![e] = None]
            /\ UNCHANGED algorithm
       ELSE /\ password' = [password EXCEPT ![e] = pw]
            /\ algorithm' = [algorithm EXCEPT ![e] = XOR]
    /\ last' = [NoCall EXCEPT !.op = "setpassword", !.e = e,
                              !.arg_password = pw, !.arg_algorithm = alg]
    /\ config' = [config EXCEPT ![e] = IF pw = None \/ pw = "" THEN "cleared" ELSE "set"]
    /\ selected' = [selected EXCEPT ![e] = IF pw = None \/ pw = "" THEN None ELSE alg]
    /\ UNCHANGED << fs, extracted, usedSalts, meta >>

\* faulty variant of setpassword: only None disables encryption, the empty
\* string is stored as a password
setpassword_stores_empty(e, pw, alg) ==
    /\ IF pw = None
       THEN /\ password' = [password EXCEPT ![e] = None]
            /\ UNCHANGED algorithm
       ELSE /\ password' = [password EXCEPT ![e] = pw]
            /\ algorithm' = [algorithm EXCEPT ![e] = alg]
    /\ last' = [NoCall EXCEPT !.op = "setpassword", !.e = e,
                              !.arg_password = pw, !.arg_algorithm = alg]
    /\ config' = [config EXCEPT ![e] = IF pw = None \/ pw = "" THEN "cleared" ELSE "set"]
    /\ selected' = [selected EXCEPT ![e] = IF pw = None \/ pw = "" THEN None ELSE alg]
    /\ UNCHANGED << fs, extracted, usedSalts, meta >>

\* setpassword(password, algorithm)
setpassword(e, pw, alg) ==
    /\ IF pw = None \/ pw = ""
       THEN /\ password' = [password EXCEPT ![e] = None]
            /\ UNCHANGED algorithm
       ELSE /\ password' = [password EXCEPT ![e] = pw]
            /\ algorithm' = [algorithm EXCEPT ![e] = alg]
    /\ last' = [NoCall EXCEPT !.op = "setpassword", !.e = e,
                              !.arg_password = pw, !.arg_algorithm = alg]
    /\ config' = [config EXCEPT ![e] = IF pw = None \/ pw = "" THEN "cleared" ELSE "set"]
    /\ selected' = [selected EXCEPT ![e] = IF pw = None \/ pw = "" THEN None ELSE alg]
    /\ UNCHANGED << fs, extracted, usedSalts, meta >>

\* the exceptions a with-block can end by; NoExc when it ends normally
BlockExceptions == {NoExc, "ValueError"}

\* faulty variant of exit: only the password is cleared
exit_password_only(e, exc_type) ==
    LET suppress == FALSE
        reraised == exc_type # NoExc /\ ~ suppress
    IN  /\ password' = [password EXCEPT ![e] = None]
        /\ UNCHANGED algorithm
        /\ last' = [NoCall EXCEPT !.op = "exit", !.e = e, !.arg_exc = exc_type,
                                  !.algorithm0 = algorithm[e],
                                  !.ret = suppress, !.raised = reraised,
                                  !.exc = IF reraised THEN exc_type ELSE NoExc]
        /\ config' = [config EXCEPT ![e] = "exited"]
        /\ selected' = [selected EXCEPT ![e] = None]
        /\ UNCHANGED << fs, extracted, usedSalts, meta >>

\* __exit__(exc_type, exc_val, exc_tb), leaving the with-block: the value
\* returned is False, and the with statement re-raises the block's exception
\* unless the value returned is true
exit(e, exc_type) ==
    LET suppress == FALSE
        reraised == exc_type # NoExc /\ ~ suppress
    IN  /\ password' = [password EXCEPT ![e] = None]
        /\ algorithm' = [algorithm EXCEPT ![e] = XOR]
        /\ last' = [NoCall EXCEPT !.op = "exit", !.e = e, !.arg_exc = exc_type,
                                  !.algorithm0 = algorithm[e],
                                  !.ret = suppress, !.raised = reraised,
                                  !.exc = IF reraised THEN exc_type ELSE NoExc]
        /\ config' = [config EXCEPT ![e] = "exited"]
        /\ selected' = [selected EXCEPT ![e] = None]
        /\ UNCHANGED << fs, extracted, usedSalts, meta >>

\* faulty variant of _validate_inputs: an engine without a password is
\* refused as well
_validate_inputs_requires_password(e, source_path) ==
    \/ fs[source_path] = NoFile
    \/ password[e] = None
    \/ password[e] = ""

\* _validate_inputs: TRUE when it raises ZipError
_validate_inputs(e, source_path) ==
    \/ fs[source_path] = NoFile
    \/ (password[e] # None /\ password[e] = "")

\* faulty variant of Wrap: the exception leaves the method as it was raised
Wrap_bare(exc) == [type |-> exc, cause |-> NoExc]

\* create_zip / create_zip_from_files, "except Exception as e: raise
\* ZipError(...) from e": the exception that reaches the caller and its
\* __cause__
Wrap(exc) == [type |-> "ZipError", cause |-> exc]

\* the record of a create that ended by the exception exc raised inside it
Raise(call, exc) ==
    [call EXCEPT !.raised = TRUE, !.exc = Wrap(exc).type, !.cause = Wrap(exc).cause]

\* faulty variant of Rejected: the output directory is made before the
\* inputs are validated
Rejected_after_mkdir(call) ==
    /\ last' = Raise(call, "ZipError")
    /\ fs' = mkdir(fs, call.path)
    /\ UNCHANGED << password, algorithm, extracted, usedSalts, meta, config, selected >>

\* create_zip / create_zip_from_files when the validation of the inputs
\* raises ZipError: nothing has been done yet
Rejected(call) ==
    /\ last' = Raise(call, "ZipError")
    /\ UNCHANGED << password, algorithm, fs, extracted, usedSalts, meta, config, selected >>

\* what is known of an output file a failed create has written to
PartialMeta == [NoMeta EXCEPT !.kind = "partial"]

\* output_path.parent.mkdir of the calling create, then
\* _create_encrypted_zip / _create_encrypted_zip_from_files: content is what
\* the archive holds, stamp the time writestr records, salt the value
\* secrets.token_bytes returns if the transform draws one
_create_encrypted_zip(e, call, content, output_path, stamp, salt, fault) ==
    LET zip_data == BuildArchive(content, stamp)
        temp_zip_path == with_suffix(output_path, TMP_ZIP)
        container == _encrypt_zip_file(algorithm[e], zip_data, password[e], salt)
        drawn == algorithm[e] = HMAC_SHA256 /\ fault # BuildFault
    IN  /\ drawn => salt \notin usedSalts
        /\ usedSalts' = IF drawn THEN usedSalts \cup {salt} ELSE usedSalts
        /\ UNCHANGED << password, algorithm, extracted, config, selected >>
        /\ CASE fault = NoFault ->
                  \* temp_zip_path.unlink() after the container is written
                  /\ fs' = [mkdir(fs, output_path) EXCEPT ![output_path] = container,
                                      ![temp_zip_path] = NoFile]
                  /\ meta' = [meta EXCEPT ![output_path] =
                                 [kind |-> "container", plain |-> zip_data,
                                  password |-> password[e], algorithm |-> algorithm[e],
                                  salt |-> IF drawn THEN salt ELSE << >>]]
                  /\ last' = [call EXCEPT !.ret = TRUE]
             [] fault = BuildFault ->
                  \* _add_file_to_zip raises ZipError; the archive begun at
                  \* temp_zip_path stays
                  /\ fs' = [mkdir(fs, output_path) EXCEPT ![temp_zip_path] = PK]
                  /\ UNCHANGED meta
                  /\ last' = Raise(call, "ZipError")
             [] fault = OpenFault ->
                  \* open(output_path, 'wb') raises; unlink is not reached
                  /\ fs' = [mkdir(fs, output_path) EXCEPT ![temp_zip_path] = zip_data]
                  /\ UNCHANGED meta
                  /\ last' = Raise(call, "OSError")
             [] fault \in WriteFaults ->
                  \* a write raises; unlink is not reached
                  /\ fs' = [mkdir(fs, output_path) EXCEPT
                               ![output_path] = PartialContainer(container, fault[2]),
                               ![temp_zip_path] = zip_data]
                  /\ meta' = [meta EXCEPT ![output_path] = PartialMeta]
                  /\ last' = Raise(call, "OSError")

\* output_path.parent.mkdir of the calling create, then
\* _create_standard_zip / _create_standard_zip_from_files
_create_standard_zip(e, call, content, output_path, stamp, fault) ==
    LET zip_data == BuildArchive(content, stamp)
    IN  /\ fault \in {NoFault, BuildFault}
        /\ UNCHANGED << password, algorithm, extracted, usedSalts, config, selected >>
        /\ IF fault = NoFault
           THEN /\ fs' = [mkdir(fs, output_path) EXCEPT ![output_path] = zip_data]
                /\ meta' = [meta EXCEPT ![output_path] =
                               [NoMeta EXCEPT !.kind = "plain", !.plain = zip_data]]
                /\ last' = [call EXCEPT !.ret = TRUE]
           ELSE /\ fs' = [mkdir(fs, output_path) EXCEPT ![output_path] = PK]
                /\ meta' = [meta EXCEPT ![output_path] = PartialMeta]
                /\ last' = Raise(call, "ZipError")

\* create_zip(source_path, output_path)
create_zip(e, source_path, output_path, stamp, salt, fault) ==
    LET call == [NoCall EXCEPT !.op = "create_zip", !.e = e, !.path = output_path,
                               !.arg_fault = fault,
                               !.source_ok = (fs[source_path] # NoFile)]
    IN  IF _validate_inputs(e, source_path)
        THEN fault = NoFault /\ Rejected(call)
        ELSE IF password[e] # None
        THEN _create_encrypted_zip(e, call, fs[source_path], output_path, stamp, salt, fault)
        ELSE _create_standard_zip(e, call, fs[source_path], output_path, stamp, fault)

\* the file lists create_zip_from_files is called on
FileLists == {<< >>, << SRC_FILE >>, << SRC_FILE, SRC_MISSING >>}

\* the data of the listed files, in the order writestr adds them
RECURSIVE Contents(_)
Contents(file_paths) ==
    IF file_paths = << >> THEN << >>
    ELSE fs[Head(file_paths)] \o Contents(Tail(file_paths))

\* create_zip_from_files(file_paths, output_path)
create_zip_from_files(e, file_paths, output_path, stamp, salt, fault) ==
    LET invalid == \/ file_paths = << >>
                   \/ \E i \in 1..Len(file_paths) : fs[file_paths[i]] = NoFile
        call == [NoCall EXCEPT !.op = "create_zip_from_files", !.e = e,
                               !.path = output_path, !.arg_fault = fault,
                               !.source_ok = ~ invalid]
    IN  IF invalid
        THEN fault = NoFault /\ Rejected(call)
        ELSE IF password[e] # None
        THEN _create_encrypted_zip(e, call, Contents(file_paths), output_path,
                                   stamp, salt, fault)
        ELSE _create_standard_zip(e, call, Contents(file_paths), output_path, stamp, fault)

\* _extract_encrypted_zip / _test_encrypted_zip_extraction after
\* _decrypt_zip_file has returned r, up to the use of the decrypted archive
Decrypted(e, zip_path, r) ==
    LET temp_zip_path == with_suffix(zip_path, TEMP_ZIP)
    IN  IF ~ r.ok
        THEN \* "return False" inside the try: the except clause is not run
             [ret |-> FALSE, exc |-> NoExc, algorithm |-> r.algorithm,
              fs |-> IF r.out = NoFile THEN fs ELSE [fs EXCEPT ![temp_zip_path] = r.out],
              decoded |-> NoFile, content |-> NoFile, steps |-> r.steps]
        ELSE IF ~ IsZip(r.out)
        THEN \* BadZipFile: the handler unlinks the temporary file
             [ret |-> FALSE, exc |-> NoExc, algorithm |-> r.algorithm,
              fs |-> [fs EXCEPT ![temp_zip_path] = NoFile],
              decoded |-> r.out, content |-> NoFile, steps |-> r.steps]
        ELSE [ret |-> TRUE, exc |-> NoExc, algorithm |-> r.algorithm,
              fs |-> [fs EXCEPT ![temp_zip_path] = NoFile],
              decoded |-> r.out, content |-> ArchiveContent(r.out), steps |-> r.steps]

\* _extract_encrypted_zip / _test_encrypted_zip_extraction: the returned
\* bool, the exception raised (none: both catch every Exception), the
\* engine's algorithm and the file system afterwards, the decrypted bytes and
\* the archive content read
OpenEncrypted(e, zip_path, fault) ==
    IF password[e] = None
    THEN [ret |-> FALSE, exc |-> NoExc, algorithm |-> algorithm[e], fs |-> fs,
          decoded |-> NoFile, content |-> NoFile, steps |-> << >>]
    ELSE CHOOSE opened \in
             {Decrypted(e, zip_path, r) :
                  r \in {_decrypt_zip_file(algorithm[e], fs[zip_path], password[e], fault)}} :
             TRUE

\* _extract_standard_zip / _test_standard_zip_extraction: zipfile.ZipFile
\* raises BadZipFile on bytes that are not an archive
OpenStandard(e, zip_path) ==
    IF IsZip(fs[zip_path])
    THEN [ret |-> TRUE, exc |-> NoExc, algorithm |-> algorithm[e], fs |-> fs,
          decoded |-> NoFile, content |-> ArchiveContent(fs[zip_path]), steps |-> << >>]
    ELSE [ret |-> FALSE, exc |-> "BadZipFile", algorithm |-> algorithm[e], fs |-> fs,
          decoded |-> NoFile, content |-> NoFile, steps |-> << >>]

\* the dispatch shared by extract_zip and test_zip_extraction: ZipError is
\* raised for a path that does not exist
OpenZip(e, zip_path, fault) ==
    IF fs[zip_path] = NoFile
    THEN [ret |-> FALSE, exc |-> "ZipError", algorithm |-> algorithm[e], fs |-> fs,
          decoded |-> NoFile, content |-> NoFile, steps |-> << >>]
    ELSE IF _is_encrypted_zip_file(fs[zip_path])
    THEN OpenEncrypted(e, zip_path, fault)
    ELSE OpenStandard(e, zip_path)

\* faulty variant of Handled: the exception is left to the caller
Handled_reraise(r) == r

\* extract_zip / test_zip_extraction, "except Exception as e: ... return
\* False": the outcome the caller sees
Handled(r) ==
    IF r.exc # NoExc THEN [r EXCEPT !.ret = FALSE, !.exc = NoExc] ELSE r

\* extract_zip(zip_path, extract_path)
extract_zip(e, zip_path, fault) ==
    \E r \in {Handled(OpenZip(e, zip_path, fault))} :
        /\ algorithm' = [algorithm EXCEPT ![e] = r.algorithm]
        /\ fs' = r.fs
        /\ extracted' = IF r.ret THEN r.content ELSE extracted
        /\ last' = [NoCall EXCEPT !.op = "extract_zip", !.e = e, !.path = zip_path,
                                  !.arg_fault = fault, !.algorithm0 = algorithm[e],
                                  !.is_encrypted = _is_encrypted_zip_file(fs[zip_path]),
                                  !.ret = r.ret, !.raised = (r.exc # NoExc),
                                  !.exc = r.exc, !.decoded = r.decoded,
                                  !.steps = r.steps]
        /\ UNCHANGED << password, usedSalts, meta, config, selected >>

\* test_zip_extraction(zip_path): the first file is extracted and removed
test_zip_extraction(e, zip_path, fault) ==
    \E r \in {Handled(OpenZip(e, zip_path, fault))} :
        /\ algorithm' = [algorithm EXCEPT ![e] = r.algorithm]
        /\ fs' = IF r.ret
                 THEN \* zip_file.extract(test_file_name); test_file.unlink()
                      [r.fs EXCEPT ![CWD_MEMBER] = NoFile]
                 ELSE r.fs
        /\ last' = [NoCall EXCEPT !.op = "test_zip_extraction", !.e = e, !.path = zip_path,
                                  !.arg_fault = fault, !.algorithm0 = algorithm[e],
                                  !.is_encrypted = _is_encrypted_zip_file(fs[zip_path]),
                                  !.ret = r.ret, !.raised = (r.exc # NoExc),
                                  !.exc = r.exc, !.decoded = r.decoded,
                                  !.steps = r.steps]
        /\ UNCHANGED << password, extracted, usedSalts, meta, config, selected >>

\* one caller, instance z1
Caller == "z1"

\* one more call is made, within the bound on the length of a run, by a
\* caller that runs it to its end: no create is in progress meanwhile
Tick == calls < MaxCalls /\ calls' = calls + 1 /\ UNCHANGED << inflight, probe >>

SetPassword ==
    /\ Tick
    /\ \/ \E alg \in EncryptionAlgorithm : setpassword(Caller, "pa", alg)
       \/ \E pw \in {"pb", None, ""} : setpassword(Caller, pw, XOR)

Exit == Tick /\ \E exc_type \in BlockExceptions : exit(Caller, exc_type)

CreateZip ==
    /\ Tick
    /\ \E src \in SourcePaths, out \in OutPaths, stamp \in Stamps, salt \in SaltPool :
          create_zip(Caller, src, out, stamp, salt, NoFault)

ExtractZip == Tick /\ \E zp \in ZipPaths : extract_zip(Caller, zp, NoFault)

TestZipExtraction == Tick /\ \E zp \in ZipPaths : test_zip_extraction(Caller, zp, NoFault)

Next ==
    \/ SetPassword
    \/ Exit
    \/ CreateZip
    \/ ExtractZip
    \/ TestZipExtraction

Spec == Init /\ [][Next]_vars

\* ---------------------------------------------- calls that can meet a fault
\* The same engine when the file system can fail under it: both create
\* operations over one output path, each with or without an I/O failure, and
\* the decoding operations on that path.
IO_OUT == << "a", "zip" >>

IOSetPassword ==
    /\ Tick
    /\ \/ \E alg \in {XOR, HMAC_SHA256} : setpassword(Caller, "pa", alg)
       \/ \E pw \in {None, ""} : setpassword(Caller, pw, XOR)

IOCreateZip ==
    /\ Tick
    /\ \E src \in SourcePaths, stamp \in Stamps, salt \in SaltPool,
          fault \in {NoFault} \cup CreateFaults :
          create_zip(Caller, src, IO_OUT, stamp, salt, fault)

IOCreateZipFromFiles ==
    /\ Tick
    /\ \E fps \in FileLists, stamp \in Stamps, salt \in SaltPool,
          fault \in {NoFault} \cup CreateFaults :
          create_zip_from_files(Caller, fps, IO_OUT, stamp, salt, fault)

IOExtractZip ==
    /\ Tick
    /\ \E fault \in {NoFault, WriteFault(0)} : extract_zip(Caller, IO_OUT, fault)

IOTestZipExtraction ==
    /\ Tick
    /\ \E fault \in {NoFault, WriteFault(0)} : test_zip_extraction(Caller, IO_OUT, fault)

IONext ==
    \/ IOSetPassword
    \/ IOCreateZip
    \/ IOCreateZipFromFiles
    \/ IOExtractZip
    \/ IOTestZipExtraction

IOSpec == Init /\ [][IONext]_vars

\* ------------------------------------------------------------ two instances
\* Two instances used side by side, in any interleaving: each has its own
\* password and its own output path, which is also the archive it decodes.
PasswordOf(e) == IF e = "z1" THEN "pa" ELSE "pb"
OutOf(e) == IF e = "z1" THEN << "a", "zip" >> ELSE << "b", "zip" >>

TwoSetPassword ==
    /\ Tick
    /\ \E e \in Engines :
          \/ \E alg \in {XOR, AES_LIKE} : setpassword(e, PasswordOf(e), alg)
          \/ setpassword(e, None, XOR)

TwoExit == Tick /\ \E e \in Engines : exit(e, NoExc)

TwoCreateZip ==
    /\ Tick
    /\ \E e \in Engines, stamp \in Stamps, salt \in SaltPool :
          create_zip(e, SRC_FILE, OutOf(e), stamp, salt, NoFault)

TwoExtractZip == Tick /\ \E e \in Engines : extract_zip(e, OutOf(e), NoFault)

TwoTestZipExtraction == Tick /\ \E e \in Engines : test_zip_extraction(e, OutOf(e), NoFault)

TwoNext ==
    \/ TwoSetPassword
    \/ TwoExit
    \/ TwoCreateZip
    \/ TwoExtractZip
    \/ TwoTestZipExtraction

TwoSpec == Init /\ [][TwoNext]_vars

\* ------------------------------------------- two callers sharing one instance
\* One caller runs create_zip on instance z1 while another calls setpassword
\* on the same instance.  The create is taken statement by statement where it
\* reads the instance's fields: the password passed to _encrypt_zip_file, the
\* algorithm compared in each branch of _encrypt_data, and the algorithm read
\* again for the token.  setpassword is taken as one step.
Shared == "z1"

\* the branches of _encrypt_data, in the order they are tried
Chain == << XOR, HMAC_SHA256, AES_LIKE, DOUBLE_XOR, CUSTOM_HASH >>

\* the create in progress, as the record of a call
EncodeCall ==
    [NoCall EXCEPT !.op = "create_zip", !.e = Shared, !.path = inflight.path]

\* create_zip up to the call of _encrypt_zip_file: the inputs are validated
\* and the plain archive is built at the temporary path.  A create that is
\* refused, or made without a password, reads no field again and runs to its
\* end.
RaceCreateZip ==
    \E src \in SourcePaths, out \in {IO_OUT}, stamp \in Stamps :
        /\ inflight.pc \in {"idle", "done"}
        /\ calls < MaxCalls
        /\ calls' = calls + 1
        /\ UNCHANGED probe
        /\ IF _validate_inputs(Shared, src) \/ password[Shared] = None
           THEN /\ create_zip(Shared, src, out, stamp, Salt(1), NoFault)
                /\ inflight' = NoEncode
           ELSE /\ fs' = [mkdir(fs, out) EXCEPT ![with_suffix(out, TMP_ZIP)] =
                                                    BuildArchive(fs[src], stamp)]
                /\ inflight' = [NoEncode EXCEPT !.pc = "built", !.path = out,
                                              !.zip_data = BuildArchive(fs[src], stamp)]
                /\ UNCHANGED << password, algorithm, extracted, usedSalts, meta, config,
                               selected, last >>

\* _create_encrypted_zip, "self._encrypt_zip_file(temp_zip_path, output_path,
\* self._password)": the password is read; without one _generate_key raises
\* AttributeError, which create_zip wraps, and the temporary archive stays
EncodeReadPassword ==
    /\ inflight.pc = "built"
    /\ IF password[Shared] = None
       THEN /\ last' = Raise(EncodeCall, "AttributeError")
            /\ inflight' = [inflight EXCEPT !.pc = "idle"]
       ELSE /\ inflight' = [inflight EXCEPT !.pc = "compare", !.password = password[Shared]]
            /\ UNCHANGED last
    /\ UNCHANGED << password, algorithm, fs, extracted, usedSalts, meta, config,
                   selected, probe, calls >>

\* _encrypt_data, one branch: self._encryption_algorithm is read and compared
\* with the branch's member; the branch taken runs its transform, and the
\* else branch after the last comparison runs _xor_encrypt
EncodeCompare ==
    \E salt \in SaltPool :
        LET k == inflight.compared + 1
            hit == algorithm[Shared] = Chain[k]
            taken == IF hit THEN Chain[k] ELSE XOR
            drawn == hit /\ Chain[k] = HMAC_SHA256
        IN  /\ inflight.pc = "compare"
            /\ IF drawn THEN salt \notin usedSalts ELSE salt = Salt(1)
            /\ usedSalts' = IF drawn THEN usedSalts \cup {salt} ELSE usedSalts
            /\ inflight' =
                  IF hit \/ k = Len(Chain)
                  THEN [inflight EXCEPT
                           !.pc = "token", !.compared = k, !.transform = taken,
                           !.salt = IF drawn THEN salt ELSE << >>,
                           !.encrypted_data =
                               _encrypt_data(taken, inflight.zip_data, inflight.password,
                                             IF drawn THEN salt ELSE << >>)]
                  ELSE [inflight EXCEPT !.compared = k]
            /\ UNCHANGED << password, algorithm, fs, extracted, meta, config, selected,
                           probe, last, calls >>

\* faulty variant of TokenAlgorithm: the token names the algorithm of the
\* branch _encrypt_data took
TokenAlgorithm_snapshot(e) == inflight.transform

\* _encrypt_zip_file, "algorithm_id = self._encryption_algorithm.value
\* .encode('utf-8')": the algorithm is read from the instance again
TokenAlgorithm(e) == algorithm[e]

\* _encrypt_zip_file from the token on, and temp_zip_path.unlink(): the
\* container is written and the create returns
EncodeWrite ==
    /\ inflight.pc = "token"
    /\ fs' = [fs EXCEPT
                 ![inflight.path] = Frame(TokenAlgorithm(Shared), inflight.encrypted_data,
                                        inflight.password),
                 ![with_suffix(inflight.path, TMP_ZIP)] = NoFile]
    /\ meta' = [meta EXCEPT ![inflight.path] =
                   [kind |-> "container", plain |-> inflight.zip_data,
                    password |-> inflight.password, algorithm |-> inflight.transform,
                    salt |-> inflight.salt]]
    /\ last' = [EncodeCall EXCEPT !.ret = TRUE]
    /\ inflight' = [inflight EXCEPT !.pc = "done"]
    /\ UNCHANGED << password, algorithm, extracted, usedSalts, config, selected, probe,
                   calls >>

\* setpassword by the other caller, at any point of the create
RaceSetPassword ==
    /\ calls < MaxCalls
    /\ calls' = calls + 1
    /\ UNCHANGED probe
    /\ \E pw \in {"pa", None}, alg \in EncryptionAlgorithm :
          /\ setpassword(Shared, pw, alg)
          /\ inflight' = IF inflight.pc \in {"compare", "token"} /\ pw # None /\ pw # ""
                       THEN [inflight EXCEPT !.landed = alg]
                       ELSE inflight

RaceNext ==
    \/ RaceSetPassword
    \/ RaceCreateZip
    \/ EncodeReadPassword
    \/ EncodeCompare
    \/ EncodeWrite

RaceSpec == Init /\ [][RaceNext]_vars

\* ------------------------------------------------ the transforms on their own
\* Each transform applied to blobs and keys of its own, outside any create:
\* the key is a digest, as _generate_key returns, or any other string of
\* bytes the methods accept.
ProbeKeys ==
    {_generate_key(p) : p \in Passwords}
        \cup {Bytes([i \in 1..Sha256Len |-> (i * 29 + 1) % 256]),
              << 200, 3, 77, 150, 9 >>}

\* blobs shorter than a salt, as long as one, longer than a key, and empty
Blob(n, k) == Bytes([i \in 1..n |-> (i * k + 5 * k) % 256])
ProbeBlobs == {Blob(n, k) : n \in {0, 1, SaltLen, SaltLen + 1, MaxBlobLen}, k \in {3, 101}}

ProbeInputs ==
    {[NoProbe EXCEPT !.stage = "input", !.algorithm = a, !.key = key, !.blob = blob,
                     !.salt = IF a = HMAC_SHA256 THEN salt ELSE << >>] :
        a \in EncryptionAlgorithm, key \in ProbeKeys, blob \in ProbeBlobs,
        salt \in SaltPool}

TransformInit == Constructed /\ probe \in ProbeInputs

Engine == << password, algorithm, fs, extracted, usedSalts, meta, config, selected,
             inflight, last, calls >>

\* the encode transform of the algorithm, on the blob
ApplyEncrypt ==
    /\ probe.stage = "input"
    /\ probe' = [probe EXCEPT
                    !.stage = "once",
                    !.once = EncryptBranch(probe.algorithm, probe.blob, probe.key,
                                           probe.salt)]
    /\ UNCHANGED Engine

\* the encode transform again, on its own output
ApplyEncryptAgain ==
    /\ probe.stage = "once"
    /\ probe.algorithm # HMAC_SHA256
    /\ probe' = [probe EXCEPT
                    !.stage = "twice",
                    !.twice = EncryptBranch(probe.algorithm, probe.once, probe.key,
                                            probe.salt)]
    /\ UNCHANGED Engine

\* the decode of the algorithm, on the output of the encode transform
ApplyDecrypt ==
    /\ probe.stage = "once"
    /\ probe' = [probe EXCEPT
                    !.stage = "decoded",
                    !.decoded = DecryptBranch(probe.algorithm, probe.once, probe.key)]
    /\ UNCHANGED Engine

TransformNext ==
    \/ ApplyEncrypt
    \/ ApplyEncryptAgain
    \/ ApplyDecrypt

TransformSpec == TransformInit /\ [][TransformNext]_vars

TypeOK ==
    /\ \A e \in Engines : password[e] \in Passwords \cup {None}
    /\ \A e \in Engines : algorithm[e] \in EncryptionAlgorithm
    /\ usedSalts \subseteq SaltPool
    /\ \A p \in Paths :
          fs[p] = NoFile \/ fs[p] = Dir \/ \A i \in 1..Len(fs[p]) : fs[p][i] \in Byte
    /\ calls \in 0..MaxCalls

\* the digests the engine computes are told apart: the two passwords have
\* different commitments and keys
PerfectHash ==
    \A p, q \in Passwords :
        p # q => /\ key_hash(p) # key_hash(q)
                 /\ _generate_key(p) # _generate_key(q)

\* ------------------------------------------------------------ properties
\* fields of a container file, by the offsets of the layout
StoredKeyHash(file) == Read(file, MagicLen + LenFieldLen, KeyHashLen)
TokenOffset == MagicLen + LenFieldLen + KeyHashLen + 1
StoredToken(file) == Read(file, TokenOffset, file[TokenOffset])
StoredCiphertext(file) == Read(file, TokenOffset + file[TokenOffset], Len(file))

Decoding == last.op \in {"extract_zip", "test_zip_extraction"}

\* the last call decoded a container that a create of this run wrote
DecodedOwn == Decoding /\ last.path \in OutPaths /\ meta[last.path].kind = "container"

\* C1: a container written under password P and any of the five algorithms,
\* decoded by an engine whose password is P, is accepted, the bytes decoded
\* are exactly the plaintext archive that was encoded, and extract_zip
\* delivers the archived content.
RoundTrip ==
    (DecodedOwn /\ password[last.e] = meta[last.path].password)
        => /\ last.ret = TRUE
           /\ last.decoded = meta[last.path].plain
           /\ last.op = "extract_zip" => extracted = fs[SRC_FILE]

RoundTripWitness ==
    /\ DecodedOwn
    /\ last.op = "extract_zip"
    /\ password[last.e] = meta[last.path].password
    /\ meta[last.path].algorithm = CUSTOM_HASH
    /\ last.ret = TRUE
    /\ extracted = SourceContent

\* C2: a container written under password P is rejected by extract_zip and
\* test_zip_extraction when the engine holds another password: the stored
\* commitment differs from the one recomputed from the engine's password, the
\* call returns False and nothing is decoded.
WrongPasswordRejected ==
    (DecodedOwn /\ password[last.e] # None
                /\ password[last.e] # meta[last.path].password)
        => /\ StoredKeyHash(fs[last.path]) # key_hash(password[last.e])
           /\ last.ret = FALSE
           /\ last.decoded = NoFile

WrongPasswordWitness ==
    /\ DecodedOwn
    /\ password[last.e] \in Passwords
    /\ password[last.e] # meta[last.path].password
    /\ last.ret = FALSE

\* C3: when the caller has no password configured (never set, cleared by
\* setpassword(None) or setpassword(''), or cleared by leaving the with-block)
\* extract_zip and test_zip_extraction of a file that starts with the magic
\* return False and decode nothing.
AbsentPasswordRejected ==
    (Decoding /\ config[last.e] # "set" /\ _is_encrypted_zip_file(fs[last.path]))
        => /\ last.ret = FALSE
           /\ last.decoded = NoFile

AbsentPasswordWitness ==
    /\ DecodedOwn
    /\ config[last.e] \in {"cleared", "exited"}
    /\ last.ret = FALSE

\* C4: a container written with algorithm A and decoded with the right
\* password by an engine configured with another algorithm A2 is extracted
\* successfully with the original content, and the engine has adopted A.
AutoDetection ==
    (DecodedOwn /\ password[last.e] = meta[last.path].password
                /\ last.algorithm0 # meta[last.path].algorithm)
        => /\ last.ret = TRUE
           /\ last.decoded = meta[last.path].plain
           /\ algorithm[last.e] = meta[last.path].algorithm
           /\ last.op = "extract_zip" => extracted = fs[SRC_FILE]

AutoDetectionWitness ==
    /\ DecodedOwn
    /\ last.op = "extract_zip"
    /\ password[last.e] = meta[last.path].password
    /\ meta[last.path].algorithm = HMAC_SHA256
    /\ last.algorithm0 = XOR
    /\ last.ret = TRUE

\* C5: in every container a create wrote, the token in the header is the
\* value of the algorithm the engine held at that create, and the ciphertext
\* in the same file is that algorithm's transform of the plaintext archive.
TokenNamesTransform ==
    \A p \in OutPaths :
        meta[p].kind = "container"
            => /\ IsMember(StoredToken(fs[p]))
               /\ Member(StoredToken(fs[p])) = meta[p].algorithm
               /\ StoredCiphertext(fs[p]) =
                      _encrypt_data(Member(StoredToken(fs[p])), meta[p].plain,
                                    meta[p].password, meta[p].salt)

TokenNamesTransformWitness ==
    /\ last.op = "create_zip"
    /\ last.ret = TRUE
    /\ meta[last.path].kind = "container"
    /\ meta[last.path].algorithm = DOUBLE_XOR

\* C6: the container check made by extract_zip and test_zip_extraction on an
\* existing file answers true exactly when the file has at least nine bytes
\* and the first nine are "SECUREZIP", whatever the engine's password and
\* algorithm.
IsContainerIffMagic ==
    (Decoding /\ fs[last.path] # NoFile)
        => (last.is_encrypted
               <=> /\ Len(fs[last.path]) >= MagicLen
                   /\ \A i \in 1..MagicLen : fs[last.path][i] = MAGIC[i])

IsContainerWitness ==
    /\ Decoding
    /\ last.is_encrypted
    /\ password[last.e] = None

IsContainerShortWitness ==
    /\ Decoding
    /\ last.path = F_SHORT
    /\ ~ last.is_encrypted
    /\ password[last.e] # None

\* C7: two containers written from the same plaintext archive with the same
\* password and the same algorithm among xor, aes_like, double_xor and
\* custom_hash are byte-identical.
DeterministicEncoding ==
    \A p, q \in OutPaths :
        ( /\ meta[p].kind = "container" /\ meta[q].kind = "container"
          /\ meta[p].algorithm # HMAC_SHA256
          /\ meta[p].algorithm = meta[q].algorithm
          /\ meta[p].password = meta[q].password
          /\ meta[p].plain = meta[q].plain )
            => fs[p] = fs[q]

DeterministicEncodingWitness ==
    \E p, q \in OutPaths :
        /\ p # q
        /\ meta[p].kind = "container" /\ meta[q].kind = "container"
        /\ meta[p].algorithm = AES_LIKE /\ meta[q].algorithm = AES_LIKE
        /\ meta[p].password = meta[q].password
        /\ meta[p].plain = meta[q].plain

\* two containers written by two hmac_sha256 creates from the same plaintext
\* archive with the same password
HmacTwice(p, q) ==
    /\ p # q
    /\ meta[p].kind = "container" /\ meta[q].kind = "container"
    /\ meta[p].algorithm = HMAC_SHA256 /\ meta[q].algorithm = HMAC_SHA256
    /\ meta[p].password = meta[q].password
    /\ meta[p].plain = meta[q].plain

\* C8: two hmac_sha256 containers of the same plaintext archive and password
\* carry different ciphertexts, and each of them decodes back to the
\* plaintext archive under that password.
HmacSalted ==
    \A p, q \in OutPaths :
        HmacTwice(p, q)
            => /\ StoredCiphertext(fs[p]) # StoredCiphertext(fs[q])
               /\ (Decoding /\ last.path = p /\ password[last.e] = meta[p].password)
                      => (last.ret = TRUE /\ last.decoded = meta[p].plain)

HmacSaltedWitness ==
    \E p, q \in OutPaths :
        /\ HmacTwice(p, q)
        /\ Decoding /\ last.path = p /\ password[last.e] = meta[p].password
        /\ last.ret = TRUE

\* C9: setpassword never raises; with a non-empty password it leaves the
\* engine holding exactly the password and the algorithm passed, and with
\* None or '' it leaves the password absent.
SetPasswordStores ==
    last.op = "setpassword"
        => /\ ~ last.raised
           /\ IF last.arg_password = None \/ last.arg_password = ""
              THEN password[last.e] = None
              ELSE /\ password[last.e] = last.arg_password
                   /\ algorithm[last.e] = last.arg_algorithm

SetPasswordStoresWitness ==
    /\ last.op = "setpassword"
    /\ last.arg_password = "pa"
    /\ last.arg_algorithm = AES_LIKE
    /\ password[last.e] = "pa"
    /\ algorithm[last.e] = AES_LIKE
    /\ calls > 1

SetPasswordClearsWitness ==
    /\ last.op = "setpassword"
    /\ last.arg_password = ""
    /\ password[last.e] = None
    /\ calls > 1

\* C10: after setpassword with None or '' the password is absent and the
\* engine's algorithm is xor again.
SetPasswordEmptyResetsAlgorithm ==
    (last.op = "setpassword" /\ (last.arg_password = None \/ last.arg_password = ""))
        => /\ password[last.e] = None
           /\ algorithm[last.e] = XOR

\* the last call was one of the two create operations
Creating == last.op \in {"create_zip", "create_zip_from_files"}

EmptyPasswordCreateRaises ==
    [][(last.op = "setpassword" /\ last.arg_password = "" /\ last'.op = "create_zip")
          => (last'.raised /\ last'.exc = "ZipError" /\ ~ last'.ret)]_vars

\* C13: after __exit__, whether the with-block ended normally or by an
\* exception, the engine's password is absent and its algorithm is xor; the
\* value returned is False, so an exception of the block reaches the caller.
ExitClears ==
    last.op = "exit"
        => /\ password[last.e] = None
           /\ algorithm[last.e] = XOR
           /\ last.ret = FALSE
           /\ last.arg_exc # NoExc => (last.raised /\ last.exc = last.arg_exc)
           /\ last.arg_exc = NoExc => ~ last.raised

ExitClearsWitness ==
    /\ last.op = "exit"
    /\ last.arg_exc = "ValueError"
    /\ last.algorithm0 = AES_LIKE
    /\ last.raised
    /\ password[last.e] = None
    /\ algorithm[last.e] = XOR

\* C14: in every interleaving of calls on two instances that use distinct
\* paths, a call on one instance leaves the password and the algorithm of the
\* other as they were, and a container an instance writes carries the
\* commitment of that instance's password and the token of its algorithm.
InstancesIndependent ==
    [][ /\ \A e \in Engines :
             e # last'.e => /\ password'[e] = password[e]
                            /\ algorithm'[e] = algorithm[e]
        /\ (last'.op = "create_zip" /\ last'.ret /\ password[last'.e] # None)
              => /\ StoredKeyHash(fs'[last'.path]) = key_hash(password[last'.e])
                 /\ StoredToken(fs'[last'.path]) = value_bytes(algorithm[last'.e]) ]_vars

InstancesIndependentWitness ==
    /\ last.op = "create_zip"
    /\ last.e = "z2"
    /\ last.ret
    /\ password["z1"] = "pa" /\ algorithm["z1"] = AES_LIKE
    /\ password["z2"] = "pb" /\ algorithm["z2"] = XOR
    /\ StoredKeyHash(fs[OutOf("z2")]) = key_hash("pb")

\* C15: extract_zip and test_zip_extraction never raise and return a boolean;
\* a path that does not exist, a container met without a password, a
\* commitment that is not the engine's, a header cut short and decoded bytes
\* that are not an archive all give False.
DecodeNeverRaises ==
    Decoding
        => /\ ~ last.raised
           /\ last.exc = NoExc
           /\ last.ret \in BOOLEAN
           /\ fs[last.path] = NoFile => last.ret = FALSE
           /\ (last.is_encrypted /\ password[last.e] = None) => last.ret = FALSE
           /\ (last.is_encrypted /\ password[last.e] # None
                  /\ StoredKeyHash(fs[last.path]) # key_hash(password[last.e]))
                 => last.ret = FALSE
           /\ (last.is_encrypted /\ Len(fs[last.path]) < TokenOffset) => last.ret = FALSE
           /\ (last.decoded # NoFile /\ ~ IsZip(last.decoded)) => last.ret = FALSE

DecodeNeverRaisesWitness ==
    /\ last.op = "test_zip_extraction"
    /\ last.path = F_DAMAGED
    /\ last.decoded # NoFile
    /\ ~ IsZip(last.decoded)
    /\ last.ret = FALSE
    /\ ~ last.raised

\* C16: create_zip and create_zip_from_files either return the output path
\* or raise; what they raise is always a ZipError that carries the exception
\* raised inside: the ZipError of a source that does not exist, of an empty
\* file list or of a listed file that does not exist, the ZipError of a
\* failure while the archive is built, the OSError of a failure while the
\* container is opened or written.
CreateFailureWrapped ==
    Creating
        => /\ last.ret <=> ~ last.raised
           /\ last.raised => (last.exc = "ZipError" /\ last.cause # NoExc)
           /\ ~ last.source_ok => (last.raised /\ last.cause = "ZipError")
           /\ last.arg_fault = BuildFault => (last.raised /\ last.cause = "ZipError")
           /\ last.arg_fault \in {OpenFault} \cup WriteFaults
                 => (last.raised /\ last.cause = "OSError")

CreateFailureWrappedWitness ==
    /\ last.op = "create_zip_from_files"
    /\ last.arg_fault = WriteFault(3)
    /\ last.raised
    /\ last.exc = "ZipError"
    /\ last.cause = "OSError"

\* what a caller can observe of a decode of zip_path by instance e started
\* in the current state: the result, the content delivered, the temporary
\* file, and the engine's state afterwards
Observe(e, zip_path) ==
    LET r == Handled(OpenZip(e, zip_path, NoFault))
    IN  [ret |-> r.ret, raised |-> (r.exc # NoExc), content |-> r.content,
         temp |-> r.fs[with_suffix(zip_path, TEMP_ZIP)],
         password |-> password[e], algorithm |-> r.algorithm]

\* the corrupt containers on disk: one cut after the magic, one damaged
\* after the header
CorruptPaths == {F_MAGIC, F_DAMAGED}

\* C17: started side by side in the same state, the decode of a well-formed
\* container under a wrong password and the decode of a corrupt container
\* give the caller the same observation: False, nothing delivered, no
\* temporary file, and the same engine state afterwards.
DecodeFailuresIndistinguishable ==
    \A p \in OutPaths, q \in CorruptPaths :
        ( /\ meta[p].kind = "container"
          /\ password[Caller] # None
          /\ password[Caller] # meta[p].password )
            => Observe(Caller, p) = Observe(Caller, q)

\* C18: when a create, an extract_zip or a test_zip_extraction has ended, by
\* returning or by raising, neither the '.tmp.zip' archive built before
\* wrapping nor the '.temp.zip' archive written by decryption exists.
TransientsRemoved ==
    /\ Creating => fs[with_suffix(last.path, TMP_ZIP)] = NoFile
    /\ Decoding => fs[with_suffix(last.path, TEMP_ZIP)] = NoFile

\* a container with all its fields: magic, length L, commitment, a token
\* naming one of the five algorithms, and exactly L bytes of ciphertext
CompleteContainer(file) ==
    /\ file # NoFile
    /\ Len(file) >= TokenOffset
    /\ Read(file, 0, MagicLen) = MAGIC
    /\ Len(StoredToken(file)) = file[TokenOffset]
    /\ IsMember(StoredToken(file))
    /\ Len(StoredCiphertext(file)) = UnpackU32(Read(file, MagicLen, LenFieldLen))

\* C19: an encrypted create, whether it returns or fails, leaves at the
\* output path either a complete container or what the path held before the
\* call.
EncodeAtomic ==
    [][(last'.op \in {"create_zip", "create_zip_from_files"}
          /\ password[last'.e] # None /\ last'.source_ok)
          => \/ fs'[last'.path] = fs[last'.path]
             \/ CompleteContainer(fs'[last'.path])]_vars

FramedLayout ==
    \A p \in OutPaths :
        meta[p].kind = "container"
            => LET file == fs[p]
                   T == file[22]
                   L == file[10] + 256 * file[11] + 65536 * file[12] + 16777216 * file[13]
                   ciphertext == _encrypt_data(meta[p].algorithm, meta[p].plain,
                                               meta[p].password, meta[p].salt)
               IN  /\ SubSeq(file, 1, 9) = << 83, 69, 67, 85, 82, 69, 90, 73, 80 >>
                   /\ L = Len(ciphertext)
                   /\ SubSeq(file, 14, 21) = SubSeq(sha256(encode(meta[p].password)), 1, 8)
                   /\ T = Len(value_bytes(meta[p].algorithm))
                   /\ SubSeq(file, 23, 22 + T) = value_bytes(meta[p].algorithm)
                   /\ SubSeq(file, 23 + T, Len(file)) = ciphertext
                   /\ Len(file) = 22 + T + L

FramedLayoutWitness ==
    /\ last.op = "create_zip"
    /\ last.ret = TRUE
    /\ meta[last.path].kind = "container"
    /\ meta[last.path].algorithm = HMAC_SHA256
    /\ Len(fs[last.path]) = 22 + 11 + Len(meta[last.path].plain) + SaltLen

\* the stages of _decrypt_zip_file, in the order of the source
DecodeStages == << "magic", "key_hash", "algorithm", "decrypt", "write" >>

\* C22: in every decode the magic check comes first and the comparison of
\* the commitment recomputed from the engine's current password second;
\* the token is adopted, the transform run and the output written only after
\* both have passed, so a commitment mismatch leaves the engine's algorithm
\* as it was and writes nothing.
DecodeOrdering ==
    [][(/\ last'.op \in {"extract_zip", "test_zip_extraction"}
        /\ last'.is_encrypted
        /\ password[last'.e] # None)
       => LET e == last'.e
              file == fs[last'.path]
              match == StoredKeyHash(file) = key_hash(password[e])
              n == Len(last'.steps)
          IN  /\ n >= 1
              /\ last'.steps = SubSeq(DecodeStages, 1, n)
              /\ (n > 2 => match)
              /\ ((algorithm' # algorithm \/ fs' # fs \/ last'.decoded # NoFile)
                     => n > 2)
              /\ ((Len(file) >= MagicLen + LenFieldLen /\ ~ match)
                     => /\ last'.steps = << "magic", "key_hash" >>
                        /\ algorithm' = algorithm
                        /\ fs' = fs
                        /\ extracted' = extracted
                        /\ last'.decoded = NoFile
                        /\ last'.ret = FALSE)]_vars

DecodeOrderingWitness ==
    /\ Decoding
    /\ last.path = F_DAMAGED
    /\ password[last.e] = "pb"
    /\ last.algorithm0 = XOR
    /\ last.steps = << "magic", "key_hash" >>
    /\ algorithm[last.e] = XOR
    /\ last.ret = FALSE

\* the last call was an encrypted create that wrote its container
CreatedContainer ==
    /\ last.op \in {"create_zip", "create_zip_from_files"}
    /\ last.ret = TRUE
    /\ meta[last.path].kind = "container"

\* C23 as stated: the token an encrypted create writes is the algorithm the
\* caller selected in the most recent setpassword with a non-empty password,
\* also when containers of other algorithms were extracted or tested in
\* between.
TokenIsSelected ==
    CreatedContainer => StoredToken(fs[last.path]) = value_bytes(selected[last.e])

\* C23, amended: the token an encrypted create writes is the algorithm the
\* engine holds when the create starts.  A setpassword with a non-empty
\* password makes that the algorithm selected, a create leaves it alone, and
\* an extract or test changes it only by adopting the known token of a
\* container whose commitment matched the engine's password.
TokenFollowsEngine ==
    [][LET e == last'.e
       IN  /\ (last'.op = "setpassword" /\ password'[e] # None)
                  => algorithm'[e] = last'.arg_algorithm /\ selected'[e] = algorithm'[e]
           /\ (last'.op \in {"create_zip", "create_zip_from_files"})
                  => /\ algorithm' = algorithm
                     /\ (last'.ret /\ password[e] # None)
                            => StoredToken(fs'[last'.path]) = value_bytes(algorithm[e])
           /\ (last'.op \in {"extract_zip", "test_zip_extraction"}
                 /\ algorithm'[e] # algorithm[e])
                  => /\ last'.is_encrypted
                     /\ password[e] # None
                     /\ StoredKeyHash(fs[last'.path]) = key_hash(password[e])
                     /\ IsMember(StoredToken(fs[last'.path]))
                     /\ algorithm'[e] = Member(StoredToken(fs[last'.path]))]_vars

TokenFollowsEngineWitness ==
    /\ CreatedContainer
    /\ selected[last.e] = XOR
    /\ StoredToken(fs[last.path]) = value_bytes(AES_LIKE)

\* the create in progress on the shared instance has written its container
EncodeDone ==
    /\ inflight.pc = "done"
    /\ last.op = "create_zip"
    /\ last.ret = TRUE
    /\ last.path = inflight.path

\* C24: callers sharing one instance race on its algorithm.  The ciphertext
\* of a container is the transform of the branch _encrypt_data took, and its
\* token names that algorithm unless a setpassword of another caller landed
\* between the first reading of the algorithm in _encrypt_data and its
\* reading for the token: then the token names the algorithm that
\* setpassword stored.
RaceOnSharedEngine ==
    EncodeDone
        => LET file == fs[inflight.path]
           IN  /\ StoredCiphertext(file) =
                      _encrypt_data(inflight.transform, inflight.zip_data, inflight.password,
                                    inflight.salt)
               /\ StoredToken(file) =
                      value_bytes(IF inflight.landed = None THEN inflight.transform
                                  ELSE inflight.landed)

\* the interleaving exists: a container whose token differs from the
\* algorithm that transformed its ciphertext
RaceOnSharedEngineWitness ==
    /\ EncodeDone
    /\ inflight.landed # None
    /\ StoredToken(fs[inflight.path]) # value_bytes(inflight.transform)
    /\ StoredCiphertext(fs[inflight.path]) =
           _encrypt_data(inflight.transform, inflight.zip_data, inflight.password, inflight.salt)

\* C25: for xor, aes_like, double_xor and custom_hash, every key and every
\* blob, the encode transform applied twice gives the blob back and its
\* output is as long as its input, and the decode is a second run of the
\* encode; the decode of hmac_sha256 takes the first 16 bytes as the salt and
\* XORs the rest with the keystream SHA-256(key + salt), cycled.
SelfInverse ==
    LET symmetric == probe.algorithm # HMAC_SHA256
        salt == SubSeq(probe.once, 1, SaltLen)
        rest == SubSeq(probe.once, SaltLen + 1, Len(probe.once))
        keystream == sha256(probe.key \o salt)
    IN  /\ (probe.stage \in {"once", "twice", "decoded"} /\ symmetric)
               => Len(probe.once) = Len(probe.blob)
        /\ probe.stage = "twice"
               => probe.twice = probe.blob
        /\ (probe.stage = "decoded" /\ symmetric)
               => /\ probe.decoded =
                         EncryptBranch(probe.algorithm, probe.once, probe.key, << >>)
                  /\ probe.decoded = probe.blob
        /\ (probe.stage = "decoded" /\ ~ symmetric)
               => /\ Len(probe.once) = SaltLen + Len(probe.blob)
                  /\ salt = probe.salt
                  /\ Len(probe.decoded) = Len(rest)
                  /\ \A i \in 1..Len(rest) :
                         probe.decoded[i] = Xor(rest[i], keystream[((i - 1) % Sha256Len) + 1])
                  /\ probe.decoded = probe.blob

SelfInverseWitness ==
    /\ probe.stage = "twice"
    /\ probe.algorithm = AES_LIKE
    /\ Len(probe.blob) = MaxBlobLen
    /\ probe.once # probe.blob
    /\ probe.twice = probe.blob

\* C26: whenever extract_zip or test_zip_extraction returns False, whatever
\* the reason, the engine's password and algorithm are what they were before
\* the call.
FailureLeavesState ==
    [][(last'.op \in {"extract_zip", "test_zip_extraction"} /\ last'.ret = FALSE)
          => /\ password'[last'.e] = password[last'.e]
             /\ algorithm'[last'.e] = algorithm[last'.e]]_vars

\* C27: _decrypt_zip_file reports success only if the container holds, after
\* the token, at least the L ciphertext bytes its length field announces
\* (and at least the 16 bytes of the salt under hmac_sha256); a container cut
\* short inside the ciphertext is rejected by the decode step itself.
LengthFieldHonoured ==
    (Decoding /\ last.decoded # NoFile)
        => LET file == fs[last.path]
               L == UnpackU32(Read(file, MagicLen, LenFieldLen))
               present == Len(StoredCiphertext(file))
           IN  /\ present >= L
               /\ algorithm[last.e] = HMAC_SHA256 => present >= SaltLen

\* C28: create_zip on a source that does not exist, and create_zip_from_files
\* on an empty list or a list naming a file that does not exist, raise
\* ZipError and leave the file system and the engine as they were: no output
\* file, no output directory, no temporary file.
ValidationPrecedesEffects ==
    [][(last'.op \in {"create_zip", "create_zip_from_files"} /\ ~ last'.source_ok)
          => /\ last'.raised
             /\ last'.exc = "ZipError"
             /\ fs' = fs
             /\ password' = password
             /\ algorithm' = algorithm
             /\ extracted' = extracted]_vars

ValidationPrecedesEffectsWitness ==
    /\ last.op = "create_zip_from_files"
    /\ ~ last.source_ok
    /\ last.raised
    /\ password[last.e] = "pa"
    /\ fs[OUT_DIR] = NoFile
    /\ fs[last.path] = NoFile

\* C29: an encrypted create changes no file that existed before it other
\* than the one at its output path, and extract_zip and test_zip_extraction
\* change no file that existed before them outside the extraction target; a
\* file that existed at the call's temporary path is still there, with its
\* content, after the call.
OnlyOwnTargets ==
    [][\A p \in Paths :
          (fs[p] # NoFile /\ fs'[p] # fs[p])
              => \/ /\ last'.op \in {"create_zip", "create_zip_from_files"}
                    /\ p = last'.path
                 \/ /\ last'.op = "test_zip_extraction"
                    /\ p = CWD_MEMBER]_vars

====
